---- MODULE Spec2Model ----
(***************************************************************************)
(* Model of the Python sidecar supervisor of src-tauri/src/lib.rs: the     *)
(* mutex-guarded pair {child, stdin} (PythonRuntimeInner), the commands    *)
(* python_runtime_start/stop, chat_generate, chat_cancel,                  *)
(* model_download_start, model_download_cancel, the worker subprocess as a *)
(* black box, and the reader thread that routes its output lines to the    *)
(* event bus.                                                              *)
(*                                                                         *)
(* Every command runs on its own thread; the steps of a command are the    *)
(* holds of the mutex, so that the states between two holds (and the       *)
(* states inside a hold, where lock # None) are states of the model.       *)
(***************************************************************************)
EXTENDS Integers, Sequences, FiniteSets, TLC

\* ---------------------------------------------------------------- bounds
\* Command threads that may run concurrently.
NumThreads == 2
\* Worker processes that may be spawned in one run.
MaxSpawns == 2
\* Lines a worker's input pipe holds before a write to it blocks.
PipeCap == 1
\* Lines all workers together write to their output streams in one run.
MaxLines == 2
\* Correlation ids the clock of generate_id may produce.
MaxId == 2

None == 0
Threads == 1..NumThreads
\* The mutex after a thread panicked while it held the guard: it is free,
\* and every lock() on it returns Err.
Poisoned == NumThreads + 1
Workers == 1..MaxSpawns
Ids == 1..MaxId

VARIABLES
  child,     \* PythonRuntimeInner.child: None or the worker it is a handle of
  stdin,     \* PythonRuntimeInner.stdin: None or the worker whose input pipe it is
  lock,      \* PythonRuntimeState.inner (the Mutex): None, its holder, or Poisoned
  pc,        \* position of each command thread
  op,        \* the command each thread runs
  id,        \* the correlation id of the call (generated, or passed to a cancel)
  dir,       \* what the model's local directory holds when chat_generate reads it
  ret,       \* what the call returned ("none" while it runs)
  rid,       \* the id in the value the call returned (None when it returned none)
  sent,      \* the lines the call has written so far, with the pipe written to
  nSpawned,  \* worker processes spawned so far (the workers are 1..nSpawned)
  sinceStop, \* worker processes spawned since the last stop took the handles
  wstatus,   \* each worker process: "none" (not spawned), "running", "exited"
  inbox,     \* the unread lines of each worker's input pipe
  out,       \* the unread lines of each worker's output pipe
  nOut,      \* how many lines each worker has written to its output
  reader,    \* each worker's reader thread: "none", "running", "done"
  events,    \* the events emitted on the event bus, in order
  raced,     \* the threads between ensure and send when a stop took the handles
  tray,      \* the tray click show_dropdown_at is called with
  window,    \* the main window: shown or not, its position, the position asked for
  component  \* a model id and the directory component made of it

vars == <<child, stdin, lock, pc, op, id, dir, ret, rid, sent, nSpawned, sinceStop,
          wstatus, inbox, out, nOut, reader, events, raced, tray, window, component>>

supVars == <<child, stdin, lock>>
workerVars == <<wstatus, inbox, out, nOut, reader, events>>
uiVars == <<tray, window, component>>

\* ------------------------------------------------------------- commands
EnsureOps == {"start", "generate", "download"}
CancelOps == {"cancel", "cancel_download"}
Ops == EnsureOps \cup CancelOps \cup {"stop"}

\* The "type" of the protocol line each sending command writes.
MsgType(o) ==
  CASE o = "generate" -> "generate"
    [] o = "cancel" -> "cancel"
    [] o = "download" -> "download"
    [] o = "cancel_download" -> "download_cancel"
    [] OTHER -> "shutdown"

Msg(type, i) == [type |-> type, id |-> i]

\* The first step of each command.
Entry(o) ==
  CASE o \in EnsureOps -> "ensure_lock"
    [] o = "cancel" -> "cancel_print"
    [] o = "cancel_download" -> "send_lock"
    [] OTHER -> "stop_lock"

\* No tray click yet; a hidden main window: the application runs (open),
\* the window is at the position it was created at, and no position has
\* been asked for (asked: the position last passed to set_position, if
\* any); no model id sanitized.
NoClick == <<>>
Hidden == [open |-> TRUE, shown |-> FALSE, space |-> "Physical", x |-> 0, y |-> 0,
           asked |-> <<>>]

\* The main window after setup: created visible or not, as the
\* application's configuration says, then `let _ = window.hide()`, whose
\* failure is dropped and leaves the window as it was created.
AfterSetup(createdVisible, hideOk) ==
  [Hidden EXCEPT !.shown = createdVisible /\ ~hideOk]
Started == {AfterSetup(createdVisible, hideOk) : createdVisible, hideOk \in BOOLEAN}
NoComponent == [done |-> FALSE, input |-> <<>>, out |-> <<>>]

\* The runtime after PythonRuntimeState::default().
InitRuntime ==
  /\ child = None
  /\ stdin = None
  /\ lock = None
  /\ pc = [t \in Threads |-> "idle"]
  /\ op = [t \in Threads |-> "none"]
  /\ id = [t \in Threads |-> 0]
  /\ dir = [t \in Threads |-> "none"]
  /\ ret = [t \in Threads |-> "none"]
  /\ rid = [t \in Threads |-> None]
  /\ sent = [t \in Threads |-> <<>>]
  /\ nSpawned = 0
  /\ sinceStop = 0
  /\ wstatus = [w \in Workers |-> "none"]
  /\ inbox = [w \in Workers |-> <<>>]
  /\ out = [w \in Workers |-> <<>>]
  /\ nOut = [w \in Workers |-> 0]
  /\ reader = [w \in Workers |-> "none"]
  /\ events = <<>>
  /\ raced = {}

Init ==
  /\ InitRuntime
  /\ tray = NoClick
  /\ window \in Started
  /\ component = NoComponent

\* What the directory of a model can hold: it does not exist, it is empty,
\* it has files.
ModelDirs == {"missing", "empty", "files"}

\* The frontend invokes command o on thread t; a cancel passes the id i,
\* chat_generate names a model whose directory is in state d.
Call(t, o, i, d) ==
  /\ pc[t] \in {"idle", "done"}
  /\ dir' = [dir EXCEPT ![t] = IF o = "generate" THEN d ELSE "none"]
  /\ rid' = [rid EXCEPT ![t] = None]
  /\ op' = [op EXCEPT ![t] = o]
  /\ id' = [id EXCEPT ![t] = IF o \in CancelOps THEN i ELSE 0]
  /\ ret' = [ret EXCEPT ![t] = "none"]
  /\ sent' = [sent EXCEPT ![t] = <<>>]
  /\ pc' = [pc EXCEPT ![t] = Entry(o)]
  /\ UNCHANGED <<supVars, nSpawned, sinceStop, workerVars>>
  /\ UNCHANGED <<uiVars, raced>>

\* A thread returns r and drops the guard.
Finish(t, r) ==
  /\ ret' = [ret EXCEPT ![t] = r]
  /\ pc' = [pc EXCEPT ![t] = "done"]
  /\ lock' = None

\* The id in the value a sending command returns: ChatGenerateStarted and
\* ModelDownloadStarted hold the generated id, an Err and () hold none.
ReturnedId(t, r) == IF r = "ok" /\ op[t] \in {"generate", "download"} THEN id[t] ELSE None

\* state.inner.lock() on the poisoned mutex: map_err gives the error the
\* command returns with `?`.
LockErr(t) ==
  /\ lock = Poisoned
  /\ lock' = lock
  /\ ret' = [ret EXCEPT ![t] = "Poisoned"]
  /\ pc' = [pc EXCEPT ![t] = "done"]

\* state.inner.lock() on the free mutex: the thread holds the guard and
\* goes on at `next`.
LockOk(t, next) ==
  /\ lock = None
  /\ lock' = t
  /\ ret' = ret
  /\ pc' = [pc EXCEPT ![t] = next]

\* ensure_python_runtime: state.inner.lock().
EnsureLock(t) ==
  /\ pc[t] = "ensure_lock"
  /\ LockOk(t, "ens_body") \/ LockErr(t)
  /\ UNCHANGED <<child, stdin, op, id, dir, rid, sent, nSpawned, sinceStop, workerVars>>
  /\ UNCHANGED <<uiVars, raced>>

\* ensure_python_runtime returned Ok(()): python_runtime_start returns it,
\* chat_generate and model_download_start go on.
EnsureOk(t) ==
  /\ lock' = None
  /\ IF op[t] = "start"
       THEN /\ ret' = [ret EXCEPT ![t] = "ok"]
            /\ pc' = [pc EXCEPT ![t] = "done"]
       ELSE /\ ret' = ret
            /\ pc' = [pc EXCEPT ![t] = "after_ensure"]

\* IsRunning, were the presence check left out: every call spawns.
IsRunningNever == FALSE

\* The check of ensure_python_runtime: a pair is already held.
IsRunning == child # None /\ stdin # None

\* ensure_python_runtime under the guard, up to inner.child = Some(child):
\* the presence check, the script lookup (the resource directory is not
\* resolved, the script is not found), the spawn (it fails, or it gives
\* worker w) and the start of the reader thread. With Stdio::piped() a
\* spawned Child holds both pipes, so the two ok_or_else arms are not
\* outcomes. When the OS refuses the reader thread, std::thread::spawn
\* panics under the guard: the process runs on, its Child and both pipe
\* ends are dropped unstored, no reader exists, the call does not return
\* and the mutex is poisoned.
EnsureBody(t) ==
  /\ pc[t] = "ens_body"
  /\ \/ /\ IsRunning
        /\ EnsureOk(t)
        /\ UNCHANGED <<child, stdin, nSpawned, sinceStop, workerVars>>
     \/ /\ ~IsRunning
        /\ \E e \in {"ResourceDir", "NotFound", "SpawnFailed"} : Finish(t, e)
        /\ UNCHANGED <<child, stdin, nSpawned, sinceStop, workerVars>>
     \/ /\ ~IsRunning
        /\ nSpawned < MaxSpawns
        /\ LET w == nSpawned + 1 IN
             /\ nSpawned' = w
             /\ sinceStop' = sinceStop + 1
             /\ wstatus' = [wstatus EXCEPT ![w] = "running"]
             /\ reader' = [reader EXCEPT ![w] = "running"]
             /\ child' = w
        /\ pc' = [pc EXCEPT ![t] = "ens_store"]
        /\ UNCHANGED <<stdin, lock, ret, inbox, out, nOut, events>>
     \/ /\ ~IsRunning
        /\ nSpawned < MaxSpawns
        /\ LET w == nSpawned + 1 IN
             /\ nSpawned' = w
             /\ sinceStop' = sinceStop + 1
             /\ wstatus' = [wstatus EXCEPT ![w] = "running"]
        /\ ret' = [ret EXCEPT ![t] = "Panicked"]
        /\ pc' = [pc EXCEPT ![t] = "done"]
        /\ lock' = Poisoned
        /\ UNCHANGED <<child, stdin, reader, inbox, out, nOut, events>>
  /\ UNCHANGED <<op, id, dir, rid, sent>>
  /\ UNCHANGED <<uiVars, raced>>

\* EnsureStore, were the stream of the spawned process not stored.
EnsureStoreForgets(t) ==
  /\ pc[t] = "ens_store"
  /\ stdin' = stdin
  /\ EnsureOk(t)
  /\ UNCHANGED <<child, op, id, dir, rid, sent, nSpawned, sinceStop, workerVars>>
  /\ UNCHANGED <<uiVars, raced>>

\* inner.stdin = Some(stdin); Ok(()), and the guard is dropped.
EnsureStore(t) ==
  /\ pc[t] = "ens_store"
  /\ stdin' = child
  /\ EnsureOk(t)
  /\ UNCHANGED <<child, op, id, dir, rid, sent, nSpawned, sinceStop, workerVars>>
  /\ UNCHANGED <<uiVars, raced>>

\* GeneratePrepare, were the worker the call started taken down again
\* when the model is not local.
GeneratePrepareCleansUp(t, appOk, i) ==
  /\ pc[t] = "after_ensure"
  /\ op[t] = "generate"
  /\ IF ~appOk
       THEN /\ ret' = [ret EXCEPT ![t] = "AppDataDir"]
            /\ pc' = [pc EXCEPT ![t] = "done"]
            /\ id' = id
            /\ UNCHANGED <<child, stdin>>
       ELSE IF dir[t] # "files"
       THEN /\ ret' = [ret EXCEPT ![t] = "ModelNotLocal"]
            /\ pc' = [pc EXCEPT ![t] = "done"]
            /\ id' = id
            /\ child' = None
            /\ stdin' = None
       ELSE /\ id' = [id EXCEPT ![t] = i]
            /\ pc' = [pc EXCEPT ![t] = "send_lock"]
            /\ ret' = ret
            /\ UNCHANGED <<child, stdin>>
  /\ UNCHANGED <<lock, op, dir, rid, sent, nSpawned, sinceStop, workerVars>>
  /\ raced' = IF pc'[t] = "done" THEN raced \ {t} ELSE raced
  /\ UNCHANGED uiVars

\* GeneratePrepare, were the directory only tested for existence: an empty
\* directory passes.
GeneratePrepareExistsOnly(t, appOk, i) ==
  /\ pc[t] = "after_ensure"
  /\ op[t] = "generate"
  /\ IF ~appOk
       THEN /\ ret' = [ret EXCEPT ![t] = "AppDataDir"]
            /\ pc' = [pc EXCEPT ![t] = "done"]
            /\ id' = id
       ELSE IF dir[t] = "missing"
       THEN /\ ret' = [ret EXCEPT ![t] = "ModelNotLocal"]
            /\ pc' = [pc EXCEPT ![t] = "done"]
            /\ id' = id
       ELSE /\ id' = [id EXCEPT ![t] = i]
            /\ pc' = [pc EXCEPT ![t] = "send_lock"]
            /\ ret' = ret
  /\ UNCHANGED <<supVars, op, dir, rid, sent, nSpawned, sinceStop, workerVars>>
  /\ raced' = IF pc'[t] = "done" THEN raced \ {t} ELSE raced
  /\ UNCHANGED uiVars

\* chat_generate between the two holds: compute_model_local_dir (appOk:
\* the application data directory is resolved and created), the
\* has_any_files check of the model directory, generate_id (i: the id the
\* clock gives).
GeneratePrepare(t, appOk, i) ==
  /\ pc[t] = "after_ensure"
  /\ op[t] = "generate"
  /\ IF ~appOk
       THEN /\ ret' = [ret EXCEPT ![t] = "AppDataDir"]
            /\ pc' = [pc EXCEPT ![t] = "done"]
            /\ id' = id
       ELSE IF dir[t] # "files"
       THEN /\ ret' = [ret EXCEPT ![t] = "ModelNotLocal"]
            /\ pc' = [pc EXCEPT ![t] = "done"]
            /\ id' = id
       ELSE /\ id' = [id EXCEPT ![t] = i]
            /\ pc' = [pc EXCEPT ![t] = "send_lock"]
            /\ ret' = ret
  /\ UNCHANGED <<supVars, op, dir, rid, sent, nSpawned, sinceStop, workerVars>>
  /\ raced' = IF pc'[t] = "done" THEN raced \ {t} ELSE raced
  /\ UNCHANGED uiVars

\* model_download_start between the two holds: generate_id, then
\* compute_model_local_dir (appOk: it succeeds).
DownloadPrepare(t, appOk, i) ==
  /\ pc[t] = "after_ensure"
  /\ op[t] = "download"
  /\ IF appOk
       THEN /\ id' = [id EXCEPT ![t] = i]
            /\ pc' = [pc EXCEPT ![t] = "send_lock"]
            /\ ret' = ret
       ELSE /\ ret' = [ret EXCEPT ![t] = "AppDataDir"]
            /\ pc' = [pc EXCEPT ![t] = "done"]
            /\ id' = id
  /\ UNCHANGED <<supVars, op, dir, rid, sent, nSpawned, sinceStop, workerVars>>
  /\ raced' = IF pc'[t] = "done" THEN raced \ {t} ELSE raced
  /\ UNCHANGED uiVars

\* SendLock, were the send to go on without taking the guard.
SendLockNotTaken(t) ==
  /\ pc[t] = "send_lock"
  /\ lock' = lock
  /\ pc' = [pc EXCEPT ![t] = "send"]
  /\ UNCHANGED <<child, stdin, op, id, dir, ret, rid, sent, nSpawned, sinceStop, workerVars>>
  /\ UNCHANGED <<uiVars, raced>>

\* The second state.inner.lock() of chat_generate and model_download_start,
\* the only one of chat_cancel and model_download_cancel.
SendLock(t) ==
  /\ pc[t] = "send_lock"
  /\ \/ LockOk(t, "send") /\ raced' = raced
     \/ LockErr(t) /\ raced' = raced \ {t}
  /\ UNCHANGED <<child, stdin, op, id, dir, rid, sent, nSpawned, sinceStop, workerVars>>
  /\ UNCHANGED uiVars

\* chat_cancel before its lock: print! of the request, and the message
\* built; the command goes on to state.inner.lock().
\* (model_download_cancel prints nothing.)
CancelPrint(t) ==
  /\ pc[t] = "cancel_print"
  /\ pc' = [pc EXCEPT ![t] = "send_lock"]
  /\ UNCHANGED <<supVars, op, id, dir, ret, rid, sent, nSpawned, sinceStop, workerVars>>
  /\ UNCHANGED <<uiVars, raced>>

\* The print! of chat_cancel panics when the host's stdout cannot be
\* written; the command ends there, before its lock, the mutex untouched.
\* A chat_cancel that has printed and waits for the mutex cannot panic.
CancelPanics(t) ==
  /\ pc[t] = "cancel_print"
  /\ ret' = [ret EXCEPT ![t] = "Panicked"]
  /\ pc' = [pc EXCEPT ![t] = "done"]
  /\ UNCHANGED <<supVars, op, id, dir, rid, sent, nSpawned, sinceStop, workerVars>>
  /\ UNCHANGED <<uiVars, raced>>

\* What a command returns when inner.stdin is None.
NoStdinResult(o) == IF o \in CancelOps THEN "ok" ELSE "NotRunning"

\* SendMsg, were generate_id called a second time for the line: the line
\* carries another id than the one returned.
SendMsgFreshId(t) == Msg(MsgType(op[t]), (id[t] % MaxId) + 1)

\* The line a sending command builds: its type and the id of the call.
SendMsg(t) == Msg(MsgType(op[t]), id[t])

\* write_all(line), write_all("\n"), flush() on the pipe of worker w by
\* thread t: the line enters the pipe of a running worker, the write fails
\* (broken pipe) when the worker has exited, and it blocks while the pipe
\* is full, until the worker reads or exits.
WriteLine(t, w, m) ==
  /\ wstatus[w] = "running"
  /\ Len(inbox[w]) < PipeCap
  /\ inbox' = [inbox EXCEPT ![w] = Append(@, m)]
  /\ sent' = [sent EXCEPT ![t] = Append(@, [to |-> w, msg |-> m])]

WriteFails(w) == wstatus[w] = "exited"

\* Send, were a failed write to drop the handles it failed on.
SendDropsOnFail(t) ==
  /\ pc[t] = "send"
  /\ IF stdin = None
       THEN /\ Finish(t, NoStdinResult(op[t]))
            /\ UNCHANGED <<inbox, sent, child, stdin>>
       ELSE \/ /\ WriteLine(t, stdin, SendMsg(t))
               /\ Finish(t, "ok")
               /\ UNCHANGED <<child, stdin>>
            \/ /\ WriteFails(stdin)
               /\ Finish(t, "WriteFailed")
               /\ child' = None
               /\ stdin' = None
               /\ UNCHANGED <<inbox, sent>>
  /\ rid' = [rid EXCEPT ![t] = ReturnedId(t, ret'[t])]
  /\ UNCHANGED <<op, id, dir, nSpawned, sinceStop, wstatus, out, nOut, reader, events>>
  /\ raced' = raced \ {t}
  /\ UNCHANGED uiVars

\* The guarded send of the four sending commands.
Send(t) ==
  /\ pc[t] = "send"
  /\ IF stdin = None
       THEN /\ Finish(t, NoStdinResult(op[t]))
            /\ UNCHANGED <<inbox, sent>>
       ELSE \/ /\ WriteLine(t, stdin, SendMsg(t))
               /\ Finish(t, "ok")
            \/ /\ WriteFails(stdin)
               /\ Finish(t, "WriteFailed")
               /\ UNCHANGED <<inbox, sent>>
  /\ rid' = [rid EXCEPT ![t] = ReturnedId(t, ret'[t])]
  /\ UNCHANGED <<child, stdin, op, id, dir, nSpawned, sinceStop,
                 wstatus, out, nOut, reader, events>>
  /\ raced' = raced \ {t}
  /\ UNCHANGED uiVars

\* A process that ends closes both its pipes: the unread input is lost.
Exited(w) ==
  /\ wstatus' = [wstatus EXCEPT ![w] = "exited"]
  /\ inbox' = [inbox EXCEPT ![w] = <<>>]

\* python_runtime_stop: state.inner.lock().
StopLock(t) ==
  /\ pc[t] = "stop_lock"
  /\ LockOk(t, "stop_stdin") \/ LockErr(t)
  /\ UNCHANGED <<child, stdin, op, id, dir, rid, sent, nSpawned, sinceStop, workerVars>>
  /\ UNCHANGED <<uiVars, raced>>

\* The calls of chat_generate and model_download_start that are between
\* their two holds of the guard.
Racing == {u \in Threads : op[u] \in {"generate", "download"}
                             /\ pc[u] \in {"after_ensure", "send_lock"}}

\* StopStdin, were the result of the write propagated with ? instead of
\* dropped: a failed write returns before the process handle is taken.
StopStdinPropagates(t) ==
  /\ pc[t] = "stop_stdin"
  /\ stdin' = None
  /\ IF stdin = None
       THEN /\ pc' = [pc EXCEPT ![t] = "stop_child"]
            /\ UNCHANGED <<inbox, sent, lock, ret>>
       ELSE \/ /\ WriteLine(t, stdin, Msg("shutdown", 0))
               /\ pc' = [pc EXCEPT ![t] = "stop_child"]
               /\ UNCHANGED <<lock, ret>>
            \/ /\ WriteFails(stdin)
               /\ Finish(t, "WriteFailed")
               /\ UNCHANGED <<inbox, sent>>
  /\ UNCHANGED <<child, op, id, dir, rid, nSpawned, sinceStop,
                 wstatus, out, nOut, reader, events>>
  /\ raced' = raced \cup Racing
  /\ UNCHANGED uiVars

\* StopStdin, were the guard dropped after the shutdown line and taken
\* again for the kill.
StopStdinReleases(t) ==
  /\ pc[t] = "stop_stdin"
  /\ IF stdin = None
       THEN UNCHANGED <<inbox, sent>>
       ELSE \/ WriteLine(t, stdin, Msg("shutdown", 0))
            \/ /\ WriteFails(stdin)
               /\ UNCHANGED <<inbox, sent>>
  /\ stdin' = None
  /\ lock' = None
  /\ pc' = [pc EXCEPT ![t] = "stop_child"]
  /\ UNCHANGED <<child, op, id, dir, ret, rid, nSpawned, sinceStop,
                 wstatus, out, nOut, reader, events>>
  /\ raced' = raced \cup Racing
  /\ UNCHANGED uiVars

\* if let Some(mut stdin) = inner.stdin.take(): the shutdown line is
\* written and flushed, both results dropped (let _ =).
StopStdin(t) ==
  /\ pc[t] = "stop_stdin"
  /\ IF stdin = None
       THEN UNCHANGED <<inbox, sent>>
       ELSE \/ WriteLine(t, stdin, Msg("shutdown", 0))
            \/ /\ WriteFails(stdin)
               /\ UNCHANGED <<inbox, sent>>
  /\ stdin' = None
  /\ pc' = [pc EXCEPT ![t] = "stop_child"]
  /\ UNCHANGED <<child, lock, op, id, dir, ret, rid, nSpawned, sinceStop,
                 wstatus, out, nOut, reader, events>>
  /\ raced' = raced \cup Racing
  /\ UNCHANGED uiVars

\* StopChild, were the handle cleared only after a kill that succeeded.
StopChildKeepsOnFail(t, killOk) ==
  /\ pc[t] = "stop_child"
  /\ IF child # None /\ killOk
       THEN Exited(child)
       ELSE UNCHANGED <<wstatus, inbox>>
  /\ child' = IF killOk THEN None ELSE child
  /\ sinceStop' = 0
  /\ Finish(t, IF child # None /\ ~killOk THEN "KillFailed" ELSE "ok")
  /\ UNCHANGED <<stdin, op, id, dir, rid, sent, nSpawned, out, nOut, reader, events>>
  /\ UNCHANGED <<uiVars, raced>>

\* if let Some(mut child) = inner.child.take(): child.kill(), its result
\* dropped; Ok(()) and the guard is dropped. killOk: whether the kill
\* succeeded.
StopChild(t, killOk) ==
  /\ pc[t] = "stop_child"
  /\ IF child # None /\ killOk
       THEN Exited(child)
       ELSE UNCHANGED <<wstatus, inbox>>
  /\ child' = None
  /\ sinceStop' = 0
  /\ Finish(t, "ok")
  /\ UNCHANGED <<stdin, op, id, dir, rid, sent, nSpawned, out, nOut, reader, events>>
  /\ UNCHANGED <<uiVars, raced>>

\* The worker process reads a line of its input pipe.
WorkerRead(w) ==
  /\ wstatus[w] = "running"
  /\ inbox[w] # <<>>
  /\ inbox' = [inbox EXCEPT ![w] = Tail(@)]
  /\ UNCHANGED <<supVars, pc, op, id, dir, ret, rid, sent, nSpawned, sinceStop,
                 wstatus, out, nOut, reader, events>>
  /\ UNCHANGED <<uiVars, raced>>

\* The worker process exits on its own.
WorkerExit(w) ==
  /\ wstatus[w] = "running"
  /\ Exited(w)
  /\ UNCHANGED <<supVars, pc, op, id, dir, ret, rid, sent, nSpawned, sinceStop,
                 out, nOut, reader, events>>
  /\ UNCHANGED <<uiVars, raced>>

\* ------------------------------------------------- worker output, reader
\* The "type" member of a decoded object: a string, a value that is not a
\* string (a number), or no such member (also when the value is no object).
StrType(x) == [tag |-> "str", s |-> x]
NumType == [tag |-> "num", s |-> "7"]
NoType == [tag |-> "absent", s |-> ""]

\* The types the reader republishes, and the channel of each.
RoutedTypes == {"chat_token", "done", "error", "download_started",
                "download_progress", "download_done", "download_error"}
\* Types the reader drops: the control messages, and any other string.
DroppedTypes == {"ready", "shutdown", "other"}
TypeFields == {StrType(x) : x \in RoutedTypes \cup DroppedTypes} \cup {NumType, NoType}

\* A decoded line: its "type" member and its correlation id
\* (generation_id or download_id; None when it has none).
Values == {[type |-> StrType(x), id |-> i] : x \in RoutedTypes, i \in Ids}
            \cup {[type |-> f, id |-> None] : f \in TypeFields}
NoValue == [type |-> NoType, id |-> None]

\* The content of a line of the worker's output: bytes that are not UTF-8
\* ("badutf8"), text that is not JSON ("badjson"), or the JSON text of v.
Texts == {[kind |-> "badutf8", v |-> NoValue], [kind |-> "badjson", v |-> NoValue]}
           \cup {[kind |-> "json", v |-> v] : v \in Values}

\* The payload of the event that reports a line that is not JSON.
InvalidJson == [generation_id |-> None, message |-> "Invalid runner JSON"]

\* v.get("type").and_then(|x| x.as_str()).unwrap_or("")
MsgTypeOf(v) == IF v.type.tag = "str" THEN v.type.s ELSE ""

\* The match of the reader thread: the channel of a type, "" when the
\* line is dropped.
Channel(type) ==
  CASE type = "chat_token" -> "cerebro:chat_token"
    [] type = "done" -> "cerebro:chat_done"
    [] type = "error" -> "cerebro:chat_error"
    [] type = "download_started" -> "cerebro:model_download_started"
    [] type = "download_progress" -> "cerebro:model_download_progress"
    [] type = "download_done" -> "cerebro:model_download_done"
    [] type = "download_error" -> "cerebro:model_download_error"
    [] OTHER -> ""

\* An emitted event: channel and payload, and where it comes from: the
\* worker whose reader emitted it and the position of the line in that
\* worker's output.
Event(chan, payload, w, l) == [chan |-> chan, payload |-> payload, src |-> w, seq |-> l.seq]

\* The body of the reader's loop for line l of worker w: the events it emits.
\* reader.lines().flatten() skips a line that is not UTF-8.
Route(w, l) ==
  IF l.kind = "badutf8" THEN <<>>
  ELSE IF l.kind = "badjson" THEN <<Event("cerebro:chat_error", InvalidJson, w, l)>>
  ELSE IF Channel(MsgTypeOf(l.v)) = "" THEN <<>>
  ELSE <<Event(Channel(MsgTypeOf(l.v)), l.v, w, l)>>

\* Seq s without its k-th element.
Without(s, k) == SubSeq(s, 1, k - 1) \o SubSeq(s, k + 1, Len(s))

\* ReaderStep, were each line handed to a task of its own: the pending
\* lines are handled in any order.
ReaderStepAnyOrder(w) ==
  /\ reader[w] = "running"
  /\ out[w] # <<>>
  /\ \E k \in 1..Len(out[w]) :
       /\ events' = events \o Route(w, out[w][k])
       /\ out' = [out EXCEPT ![w] = Without(@, k)]
  /\ UNCHANGED <<supVars, pc, op, id, dir, ret, rid, sent, nSpawned, sinceStop,
                 wstatus, inbox, nOut, reader>>
  /\ UNCHANGED <<uiVars, raced>>

\* One iteration of the reader thread of worker w: the line the iterator
\* yields is the oldest unread one.
ReaderStep(w) ==
  /\ reader[w] = "running"
  /\ out[w] # <<>>
  /\ events' = events \o Route(w, Head(out[w]))
  /\ out' = [out EXCEPT ![w] = Tail(@)]
  /\ UNCHANGED <<supVars, pc, op, id, dir, ret, rid, sent, nSpawned, sinceStop,
                 wstatus, inbox, nOut, reader>>
  /\ UNCHANGED <<uiVars, raced>>

\* The first statement of the loop body, eprintln! of the line, panics
\* when the host's stderr cannot be written: the reader thread ends with
\* the line it took unrouted, and the read end of the pipe is dropped
\* with it, so what the worker wrote and writes after is lost.
ReaderPanics(w) ==
  /\ reader[w] = "running"
  /\ out[w] # <<>>
  /\ reader' = [reader EXCEPT ![w] = "panicked"]
  /\ out' = [out EXCEPT ![w] = <<>>]
  /\ UNCHANGED <<supVars, pc, op, id, dir, ret, rid, sent, nSpawned, sinceStop,
                 wstatus, inbox, nOut, events>>
  /\ UNCHANGED <<uiVars, raced>>

\* The output stream is closed and read to its end: the loop and the
\* thread end.
ReaderEnd(w) ==
  /\ reader[w] = "running"
  /\ out[w] = <<>>
  /\ wstatus[w] = "exited"
  /\ reader' = [reader EXCEPT ![w] = "done"]
  /\ UNCHANGED <<supVars, pc, op, id, dir, ret, rid, sent, nSpawned, sinceStop,
                 wstatus, inbox, out, nOut, events>>
  /\ UNCHANGED <<uiVars, raced>>

RECURSIVE SumOver(_, _)
SumOver(f, S) == IF S = {} THEN 0 ELSE LET x == CHOOSE y \in S : TRUE IN f[x] + SumOver(f, S \ {x})

\* The worker process writes a line to its output; the line enters the
\* pipe while the reader thread holds its read end.
WorkerEmit(w, text) ==
  /\ wstatus[w] = "running"
  /\ reader[w] = "running"
  /\ SumOver(nOut, Workers) < MaxLines
  /\ nOut' = [nOut EXCEPT ![w] = @ + 1]
  /\ out' = [out EXCEPT ![w] = Append(@, [seq |-> nOut[w] + 1, kind |-> text.kind, v |-> text.v])]
  /\ UNCHANGED <<supVars, pc, op, id, dir, ret, rid, sent, nSpawned, sinceStop,
                 wstatus, inbox, reader, events>>
  /\ UNCHANGED <<uiVars, raced>>

\* ------------------------------------------------------ popover placement
\* The f64 values of show_dropdown_at are held in fixed point, Frac parts
\* to the unit; the inputs below are those on which every division of the
\* function is exact in it.
Frac == 2

\* `n as f64` of an i32 or a u32.
AsF64(n) == n * Frac

\* a / b on f64.
FDiv(a, b) == (a * Frac) \div b

\* f64::max.
FMax(a, b) == IF a >= b THEN a ELSE b

\* f64::round: to the nearest integer, halves away from zero.
Round(v) ==
  IF v >= 0 THEN (v + (Frac \div 2)) \div Frac
            ELSE -((-v + (Frac \div 2)) \div Frac)

\* `v as i32` of an integral f64: the cast saturates.
I32Max == (2^30 - 1) + 2^30
I32Min == (-I32Max) - 1
AsI32(n) == IF n > I32Max THEN I32Max ELSE IF n < I32Min THEN I32Min ELSE n

EDGE_GAP_PX == AsF64(20)

\* Option<T>: None and Some(v).
Absent == <<>>
Some(v) == <<v>>

\* The inputs of a tray click: the coordinate space of the rectangle of
\* the tray icon (its position and its size are tagged each), its integer
\* coordinates, the click point, the outer size of the main window and its
\* monitor, either of which tauri may fail to give.
Spaces == {"Physical", "Logical"}
RectXs == {100, 200}
RectYs == {10, 760}
RectWs == {20}
RectHs == {20}
ClickXs == {500, 900}
ClickYs == {100, 400, 700}
WindowSizes == {[width |-> 300, height |-> 400], [width |-> 301, height |-> 401]}
ScaleFactors == {AsF64(1), AsF64(2)}
Monitors == {[width |-> 1000, height |-> 800, scale_factor |-> s] : s \in ScaleFactors}

\* A rectangle coordinate n as the event carries it: an integer when
\* physical, an f64 when logical.
Coord(space, n) == IF space = "Physical" THEN n ELSE AsF64(n)

TrayClicks ==
  {[position |-> ps, size |-> ss,
    rect_x |-> Coord(ps, rx), rect_y |-> Coord(ps, ry),
    rect_w |-> Coord(ss, rw), rect_h |-> Coord(ss, rh),
    click_x |-> AsF64(cx), click_y |-> AsF64(cy),
    window_size |-> ws, monitor |-> mo] :
     ps \in Spaces, ss \in Spaces, rx \in RectXs, ry \in RectYs,
     rw \in RectWs, rh \in RectHs, cx \in ClickXs, cy \in ClickYs,
     ws \in {Absent} \cup {Some(s) : s \in WindowSizes},
     mo \in {Absent} \cup {Some(o) : o \in Monitors}}

\* ShowAbove, were the vertical flip left out: the window always goes below.
ShowAboveNever(e) == FALSE

\* show_above: the click is in the lower half of the monitor; false
\* without a monitor.
ShowAbove(e) ==
  IF e.monitor # Absent
    THEN e.click_y > FDiv(AsF64(e.monitor[1].height), AsF64(2))
    ELSE FALSE

\* scale_factor: that of the monitor; 1.0 without a monitor.
ScaleFactor(e) == IF e.monitor # Absent THEN e.monitor[1].scale_factor ELSE AsF64(1)

\* gap: EDGE_GAP_PX, divided by the scale factor when the rectangle's
\* position is logical.
Gap(e) == IF e.position = "Physical" THEN EDGE_GAP_PX ELSE FDiv(EDGE_GAP_PX, ScaleFactor(e))

\* The position show_dropdown_at sets: below the rectangle and aligned
\* with its left edge, flipped above and to the right by the half of the
\* monitor the click is in when window size and monitor are both known,
\* the gap applied away from the rectangle by show_above; rounded to i32
\* when the rectangle's position is physical.
Placement(e) ==
  LET rect_x == IF e.position = "Physical" THEN AsF64(e.rect_x) ELSE e.rect_x
      rect_y == IF e.position = "Physical" THEN AsF64(e.rect_y) ELSE e.rect_y
      rect_w == IF e.size = "Physical" THEN AsF64(e.rect_w) ELSE e.rect_w
      rect_h == IF e.size = "Physical" THEN AsF64(e.rect_h) ELSE e.rect_h
      both == e.window_size # Absent /\ e.monitor # Absent
      window_w == AsF64(e.window_size[1].width)
      window_h == AsF64(e.window_size[1].height)
      y1 == IF both /\ ShowAbove(e) THEN rect_y - window_h ELSE rect_y + rect_h
      x1 == IF both /\ e.click_x > FDiv(AsF64(e.monitor[1].width), AsF64(2))
              THEN FMax(rect_x + rect_w - FDiv(window_w, AsF64(2)) - AsF64(10), AsF64(0))
              ELSE rect_x
      y2 == IF ShowAbove(e) THEN y1 - Gap(e) ELSE y1 + Gap(e)
  IN IF e.position = "Physical"
       THEN [space |-> "Physical", x |-> AsI32(Round(x1)), y |-> AsI32(Round(y2))]
       ELSE [space |-> "Logical", x |-> x1, y |-> y2]

\* window.is_visible().unwrap_or(false): a failed query reads as hidden.
IsVisible(visOk) == visOk /\ window.shown

\* let _ = window.hide(): the window is hidden unless the call fails.
Hide(hideOk) == IF hideOk THEN [window EXCEPT !.shown = FALSE] ELSE window

\* The frame of the actions on the window.
WindowFrame ==
  /\ UNCHANGED <<tray, component>>
  /\ UNCHANGED <<supVars, pc, op, id, dir, ret, rid, sent, nSpawned, sinceStop,
                 workerVars, raced>>

\* The handler of a left click on the tray icon, after its println!: a
\* window that reads as visible is hidden; else show_dropdown_at computes
\* the position and passes it to set_position, then calls show and
\* set_focus, dropping the three results: the window moves when
\* set_position succeeds and is shown when show succeeds. The main window
\* is declared in the application's configuration, so
\* get_webview_window("main") gives it.
TrayClick(visOk, hideOk, posOk, showOk) ==
  /\ tray # NoClick
  /\ window.open
  /\ IF IsVisible(visOk)
       THEN window' = Hide(hideOk)
       ELSE LET p == Placement(tray[1]) IN
              window' = [open |-> TRUE,
                         shown |-> window.shown \/ showOk,
                         space |-> IF posOk THEN p.space ELSE window.space,
                         x |-> IF posOk THEN p.x ELSE window.x,
                         y |-> IF posOk THEN p.y ELSE window.y,
                         asked |-> Some(p)]
  /\ WindowFrame

\* println! at the head of the click handler panics when the host's stdout
\* cannot be written: nothing is hidden, placed or shown; the panic leaves
\* the event loop's callback, and the application goes on or ends with it.
TrayClickPanics(survives) ==
  /\ tray # NoClick
  /\ window.open
  /\ window' = IF survives THEN window
               ELSE [window EXCEPT !.open = FALSE, !.shown = FALSE]
  /\ WindowFrame

\* toggle_main_window, the tray menu item "show_hide": a window that
\* reads as visible is hidden, else it is shown and focused where it is.
ToggleMainWindow(visOk, hideOk, showOk) ==
  /\ window.open
  /\ window' = IF IsVisible(visOk) THEN Hide(hideOk)
               ELSE [window EXCEPT !.shown = window.shown \/ showOk]
  /\ WindowFrame

\* on_window_event: CloseRequested (the close is prevented) and
\* Focused(false) hide the window.
WindowEvent(hideOk) ==
  /\ window.open
  /\ window' = Hide(hideOk)
  /\ WindowFrame

\* The tray menu item "quit": app.exit(0).
Quit ==
  /\ window.open
  /\ window' = [window EXCEPT !.open = FALSE, !.shown = FALSE]
  /\ WindowFrame

\* ------------------------------------------------- model directory names
\* The characters of a repo identifier (Rust chars: Unicode scalar values,
\* whatever their length in UTF-8): an ASCII letter of each case, a digit,
\* the three punctuation marks kept, and three that are not kept, one of
\* them not ASCII.
Longest == 3
Alnum == {"a", "Z", "7"}
Chars == Alnum \cup {"-", "_", ".", "/", " ", "e-acute"}

\* The identifiers: every string of at most Longest characters.
RepoIds == UNION {[1..n -> Chars] : n \in 0..Longest}

\* SanitizeChar, were '/' kept as the separator of a nested directory.
SanitizeCharKeepsSlash(ch) == IF ch \in Alnum \cup {"-", "_", ".", "/"} THEN ch ELSE "_"

\* ch.is_ascii_alphanumeric() || ch == '-' || ch == '_' || ch == '.', and
\* the character pushed.
SanitizeChar(ch) == IF ch \in Alnum \cup {"-", "_", "."} THEN ch ELSE "_"

\* The all-ASCII literal "model".
Placeholder == <<"m", "o", "d", "e", "l">>

\* sanitize_dir_component.
SanitizeDirComponent(input) ==
  LET pushed == [k \in 1..Len(input) |-> SanitizeChar(input[k])]
  IN IF pushed = <<>> THEN Placeholder ELSE pushed

\* compute_model_local_dir names the directory of the repo id it is given.
Sanitize ==
  /\ ~component.done
  /\ component' = [component EXCEPT !.done = TRUE,
                                    !.out = SanitizeDirComponent(component.input)]
  /\ UNCHANGED <<tray, window>>
  /\ UNCHANGED <<supVars, pc, op, id, dir, ret, rid, sent, nSpawned, sinceStop,
                 workerVars, raced>>

\* ------------------------------------------------------ specifications
\* The invocations the frontend can make: a command, the id a cancel
\* passes, the state of the directory of the model chat_generate names.
CallArgs ==
  {[o |-> o, i |-> None, d |-> "none"] : o \in {"start", "stop", "download"}}
    \cup {[o |-> o, i |-> i, d |-> "none"] : o \in CancelOps, i \in Ids}
    \cup {[o |-> "generate", i |-> None, d |-> d] : d \in ModelDirs}

\* The commands, every step of theirs.
Commands(t) ==
  \/ EnsureLock(t)
  \/ EnsureBody(t)
  \/ EnsureStore(t)
  \/ \E appOk \in BOOLEAN, i \in Ids : GeneratePrepare(t, appOk, i)
  \/ \E appOk \in BOOLEAN, i \in Ids : DownloadPrepare(t, appOk, i)
  \/ CancelPrint(t)
  \/ CancelPanics(t)
  \/ SendLock(t)
  \/ Send(t)
  \/ StopLock(t)
  \/ StopStdin(t)
  \/ \E killOk \in BOOLEAN : StopChild(t, killOk)

\* The supervisor: the six commands on concurrent threads, and worker
\* processes that read their input, exit, and whose readers end; the
\* workers write no output.
Next ==
  \/ \E t \in Threads, a \in CallArgs : Call(t, a.o, a.i, a.d)
  \/ \E t \in Threads : Commands(t)
  \/ \E w \in Workers : WorkerRead(w)
  \/ \E w \in Workers : WorkerExit(w)
  \/ \E w \in Workers : ReaderEnd(w)

Spec == Init /\ [][Next]_vars

\* The router: workers that write any line to their output and the reader
\* threads that route them, while one command thread starts and stops the
\* runtime.
RouterThreads == {t \in Threads : \A u \in Threads : t <= u}

NextRouter ==
  \/ \E t \in RouterThreads, o \in {"start", "stop"} : Call(t, o, None, "none")
  \/ \E t \in RouterThreads : EnsureLock(t)
  \/ \E t \in RouterThreads : EnsureBody(t)
  \/ \E t \in RouterThreads : EnsureStore(t)
  \/ \E t \in RouterThreads : StopLock(t)
  \/ \E t \in RouterThreads : StopStdin(t)
  \/ \E t \in RouterThreads, killOk \in BOOLEAN : StopChild(t, killOk)
  \/ \E w \in Workers : WorkerExit(w)
  \/ \E w \in Workers, text \in Texts : WorkerEmit(w, text)
  \/ \E w \in Workers : ReaderStep(w)
  \/ \E w \in Workers : ReaderPanics(w)
  \/ \E w \in Workers : ReaderEnd(w)

SpecRouter == Init /\ [][NextRouter]_vars

\* The tray: left clicks on the tray icon with any of the inputs, the
\* tray menu and the events of the window, while the runtime is idle.
InitPlace ==
  /\ InitRuntime
  /\ tray \in {Some(e) : e \in TrayClicks}
  /\ window \in Started
  /\ component = NoComponent

NextPlace ==
  \/ \E visOk, hideOk, posOk, showOk \in BOOLEAN : TrayClick(visOk, hideOk, posOk, showOk)
  \/ \E survives \in BOOLEAN : TrayClickPanics(survives)
  \/ \E visOk, hideOk, showOk \in BOOLEAN : ToggleMainWindow(visOk, hideOk, showOk)
  \/ \E hideOk \in BOOLEAN : WindowEvent(hideOk)
  \/ Quit

SpecPlace == InitPlace /\ [][NextPlace]_vars

\* The directory names: any repo identifier, sanitized while the runtime
\* is idle.
InitNames ==
  /\ InitRuntime
  /\ tray = NoClick
  /\ window \in Started
  /\ component \in {[done |-> FALSE, input |-> s, out |-> <<>>] : s \in RepoIds}

NextNames == Sanitize

SpecNames == InitNames /\ [][NextNames]_vars

\* The supervisor under fair scheduling: start, stop and cancel on
\* concurrent threads, the frontend free to call or not, and the worker
\* process free to read its input, to exit, or to do neither. A step of a
\* command is enabled when the code can take it: a thread in lock() has a
\* step only while no thread holds the mutex, a thread in write_all only
\* while the pipe has room or is closed. Each thread that can step again
\* and again does step: a runnable thread is scheduled, and a thread in
\* lock() gets the mutex when it is released again and again. The mutex
\* of std promises less (a waiter can be passed over for ever); the
\* stronger condition leaves fewer behaviours, each of them one of the
\* code, so a call that never returns under it never returns in the code.
LiveCalls ==
  {[o |-> o, i |-> None] : o \in {"start", "stop"}} \cup {[o |-> "cancel", i |-> i] : i \in Ids}

LiveStep(t) ==
  \/ EnsureLock(t)
  \/ EnsureBody(t)
  \/ EnsureStore(t)
  \/ CancelPrint(t)
  \/ CancelPanics(t)
  \/ SendLock(t)
  \/ Send(t)
  \/ StopLock(t)
  \/ StopStdin(t)
  \/ \E killOk \in BOOLEAN : StopChild(t, killOk)

NextLive ==
  \/ \E t \in Threads, a \in LiveCalls : Call(t, a.o, a.i, "none")
  \/ \E t \in Threads : EnsureLock(t)
  \/ \E t \in Threads : EnsureBody(t)
  \/ \E t \in Threads : EnsureStore(t)
  \/ \E t \in Threads : CancelPrint(t)
  \/ \E t \in Threads : CancelPanics(t)
  \/ \E t \in Threads : SendLock(t)
  \/ \E t \in Threads : Send(t)
  \/ \E t \in Threads : StopLock(t)
  \/ \E t \in Threads : StopStdin(t)
  \/ \E t \in Threads, killOk \in BOOLEAN : StopChild(t, killOk)
  \/ \E w \in Workers : WorkerRead(w)
  \/ \E w \in Workers : WorkerExit(w)

SpecLive == Init /\ [][NextLive]_vars /\ \A t \in Threads : SF_vars(LiveStep(t))

\* ----------------------------------------------------------------- claims
SpawnErrors == {"ResourceDir", "NotFound", "SpawnFailed"}

\* The step in which python_runtime_stop returns on thread t.
StopReturns(t) == op[t] = "stop" /\ pc[t] # "done" /\ pc'[t] = "done"

\* C1: whatever the commands and their interleaving, and whether or not
\* the shutdown write or the kill failed, the state right after a
\* python_runtime_stop returns is {child absent, stdin absent}.
C1_StopLeavesBothAbsent ==
  [][\A t \in Threads : StopReturns(t) => (child' = None /\ stdin' = None)]_vars

\* A stop has returned whose kill failed: the worker it held still runs,
\* and no handle is held.
C1_Witness ==
  \E t \in Threads :
    /\ op[t] = "stop" /\ pc[t] = "done" /\ ret[t] = "ok"
    /\ lock = None /\ child = None /\ stdin = None
    /\ \E w \in Workers : wstatus[w] = "running"

\* C2: whenever the mutex is not held (it is free, or poisoned), the
\* process handle and the input handle are both present or both absent.
C2_BothOrNeither == lock \notin Threads => ((child = None) <=> (stdin = None))

\* A second worker is held, the mutex is free, and a call has failed
\* (a failed spawn or a failed send) on the way.
C2_Witness ==
  /\ lock = None /\ child # None /\ stdin # None /\ nSpawned = 2
  /\ \E t \in Threads : pc[t] = "done" /\ ret[t] \in SpawnErrors \cup {"WriteFailed"}

\* C3: a worker is spawned only when the guarded pair is absent, and
\* between two stops at most one worker is spawned, however many
\* ensure_python_runtime calls the commands make.
C3_SpawnOnlyWhenAbsent ==
  /\ [](sinceStop <= 1)
  /\ [][nSpawned' # nSpawned => (child = None /\ stdin = None)]_vars

\* Two threads have both come out of ensure_python_runtime with Ok, with
\* no stop between, and one worker was spawned.
C3_Witness ==
  /\ nSpawned = 1 /\ sinceStop = 1
  /\ \E t, u \in Threads :
       /\ t # u
       /\ op[t] = "start" /\ pc[t] = "done" /\ ret[t] = "ok"
       /\ op[u] \in {"generate", "download"} /\ pc[u] \in {"after_ensure", "send_lock", "send"}

\* C4: once the worker held has exited on its own and its reader loop has
\* ended, the next ensure_python_runtime that returns Ok has spawned a
\* fresh worker.
C4_RespawnAfterExit ==
  [][\A t \in Threads :
       ( /\ pc[t] = "ens_body"
         /\ child # None
         /\ wstatus[child] = "exited"
         /\ reader[child] = "done"
         /\ pc'[t] # "ens_body"
         /\ ret'[t] \notin SpawnErrors )
       => (nSpawned' = nSpawned + 1 /\ child' = nSpawned')]_vars

\* C5: a chat_generate whose model directory is missing or empty writes no
\* line to the worker, returns no id, and returns the ModelNotLocal error
\* (or ends at a step before the directory check: the runtime could not
\* be started, the mutex was poisoned, the reader thread could not be
\* spawned, the application data directory was not resolved).
C5_ModelNotLocalSendsNothing ==
  \A t \in Threads :
    (op[t] = "generate" /\ dir[t] \in {"missing", "empty"}) =>
      /\ sent[t] = <<>>
      /\ pc[t] \notin {"send_lock", "send"}
      /\ pc[t] = "done" =>
           (rid[t] = None /\ ret[t] \in {"ModelNotLocal", "AppDataDir", "Poisoned", "Panicked"}
                                           \cup SpawnErrors)

\* A chat_generate on an empty model directory has returned ModelNotLocal
\* while a worker is held.
C5_Witness ==
  \E t \in Threads :
    /\ op[t] = "generate" /\ dir[t] = "empty"
    /\ pc[t] = "done" /\ ret[t] = "ModelNotLocal"
    /\ child # None /\ stdin # None /\ wstatus[child] = "running"

\* C6: a chat_cancel or model_download_cancel invoked while the
\* supervisor is not running returns Ok, writes nothing, spawns nothing
\* and leaves the pair absent.
C6_CancelWhenNotRunning ==
  [][\A t \in Threads :
       ( /\ op[t] \in CancelOps
         /\ pc[t] \in {"cancel_print", "send_lock", "send"} /\ pc'[t] = "done"
         /\ stdin = None /\ child = None ) =>
            /\ ret'[t] = "ok"
            /\ sent'[t] = <<>>
            /\ inbox' = inbox
            /\ nSpawned' = nSpawned
            /\ child' = None /\ stdin' = None]_vars

\* The step in which the reader of worker w takes the next line of the
\* output, the oldest unread one.
ReaderReads(w) == Len(out'[w]) < Len(out[w])

\* C7: every line of the worker's output that is not JSON yields exactly
\* one event on the chat_error channel, with a null correlation id and the
\* fixed message, and the reader loop goes on.
C7_MalformedLineReported ==
  [][\A w \in Workers :
       (ReaderReads(w) /\ Head(out[w]).kind # "json") =>
         /\ Len(events') = Len(events) + 1
         /\ SubSeq(events', 1, Len(events)) = events
         /\ events'[Len(events')].chan = "cerebro:chat_error"
         /\ events'[Len(events')].payload = InvalidJson
         /\ reader'[w] = "running"]_vars

\* The channel the claim gives each type.
C8_Channels ==
  [chat_token |-> "cerebro:chat_token",
   done |-> "cerebro:chat_done",
   error |-> "cerebro:chat_error",
   download_started |-> "cerebro:model_download_started",
   download_progress |-> "cerebro:model_download_progress",
   download_done |-> "cerebro:model_download_done",
   download_error |-> "cerebro:model_download_error"]

\* C8: for every line that is JSON, the reader emits exactly one event, on
\* the channel of its type and with the decoded value as payload, when the
\* type is one of the seven it republishes, and no event when the type is
\* ready, shutdown, any other string, missing or not a string.
C8_RoutedByType ==
  [][\A w \in Workers :
       (ReaderReads(w) /\ Head(out[w]).kind = "json") =>
         LET v == Head(out[w]).v IN
           /\ SubSeq(events', 1, Len(events)) = events
           /\ IF v.type.tag = "str" /\ v.type.s \in DOMAIN C8_Channels
                THEN /\ Len(events') = Len(events) + 1
                     /\ events'[Len(events')].chan = C8_Channels[v.type.s]
                     /\ events'[Len(events')].payload = v
                ELSE events' = events]_vars

\* The correlation id of an event.
EventId(e) == IF e.payload = InvalidJson THEN None ELSE e.payload.id

\* C9: the events of one correlation id that come from one worker are on
\* the event bus in the order in which that worker wrote their lines,
\* whatever the commands, stops and restarts in between.
C9_PerIdOrder ==
  \A i, j \in DOMAIN events :
    (i < j /\ events[i].src = events[j].src /\ EventId(events[i]) = EventId(events[j]))
      => events[i].seq < events[j].seq

\* Two events of one id from one worker are on the bus, and the runtime
\* was stopped and started again meanwhile.
C9_Witness ==
  /\ nSpawned = 2
  /\ Len(events) = 2
  /\ events[1].src = events[2].src
  /\ EventId(events[1]) # None
  /\ EventId(events[1]) = EventId(events[2])
  /\ events[1].chan # events[2].chan

\* The step in which chat_generate or model_download_start returns Ok.
SendReturnsOk(t) ==
  /\ op[t] \in {"generate", "download"}
  /\ pc[t] = "send" /\ pc'[t] = "done" /\ ret'[t] = "ok"

\* C10: a chat_generate or model_download_start that returns Ok has
\* written exactly one line, of type generate resp. download, to the pipe
\* inner.stdin held at the write, and the id in the line is the id
\* returned; one that returns an error returns no id.
C10_OneLineWithReturnedId ==
  [][\A t \in Threads :
       /\ SendReturnsOk(t) =>
            LET line == [type |-> IF op[t] = "generate" THEN "generate" ELSE "download",
                         id |-> rid'[t]] IN
              /\ stdin # None
              /\ rid'[t] # None
              /\ sent[t] = <<>>
              /\ sent'[t] = <<[to |-> stdin, msg |-> line]>>
              /\ inbox' = [inbox EXCEPT ![stdin] = Append(@, line)]
       /\ (op[t] \in {"generate", "download"} /\ pc'[t] = "done" /\ ret'[t] # "ok") =>
            rid'[t] = None]_vars

\* A model_download_start has returned Ok with id 2 after one write.
C10_Witness ==
  \E t \in Threads :
    /\ op[t] = "download" /\ pc[t] = "done" /\ ret[t] = "ok"
    /\ rid[t] = 2 /\ Len(sent[t]) = 1

\* The click the tray handler placed the shown window for.
Placed == tray # NoClick /\ window.asked # Absent
Result == window.asked[1]
Click == tray[1]
BothKnown == Click.window_size # Absent /\ Click.monitor # Absent

\* The reference position of the specification, on the anchor rectangle as
\* given, in the units of Frac: the halves of the monitor by doubling the
\* click, half the window width as the width in halves.
AnchorF(space, v) == IF space = "Physical" THEN AsF64(v) ELSE v
RefAbove == Click.click_y * 2 > AsF64(Click.monitor[1].height)
RefRight == Click.click_x * 2 > AsF64(Click.monitor[1].width)
RefGap ==
  IF Click.position = "Physical" THEN AsF64(20)
  ELSE (AsF64(20) * Frac) \div Click.monitor[1].scale_factor
RefY ==
  IF RefAbove
    THEN AnchorF(Click.position, Click.rect_y) - AsF64(Click.window_size[1].height) - RefGap
    ELSE AnchorF(Click.position, Click.rect_y) + AnchorF(Click.size, Click.rect_h) + RefGap
RefX ==
  IF RefRight
    THEN FMax(0, AnchorF(Click.position, Click.rect_x) + AnchorF(Click.size, Click.rect_w)
                   - Click.window_size[1].width - AsF64(10))
    ELSE AnchorF(Click.position, Click.rect_x)

\* The scenario of the specification: anchor {100, 10, 20, 20} in physical
\* pixels, window 300x400, monitor 1000x800, the click at (cx, cy).
Scenario(cx, cy) ==
  /\ Placed /\ BothKnown
  /\ Click.position = "Physical" /\ Click.size = "Physical"
  /\ Click.rect_x = 100 /\ Click.rect_y = 10 /\ Click.rect_w = 20 /\ Click.rect_h = 20
  /\ Click.window_size[1] = [width |-> 300, height |-> 400]
  /\ Click.monitor[1].width = 1000 /\ Click.monitor[1].height = 800
  /\ Click.click_x = AsF64(cx) /\ Click.click_y = AsF64(cy)

\* C11 as stated: with the window size and the monitor known, the position
\* set is exactly the reference position, in either space.
C11_Original ==
  (Placed /\ BothKnown) =>
     /\ AnchorF(Result.space, Result.x) = RefX
     /\ AnchorF(Result.space, Result.y) = RefY

\* C11: with the window size and the monitor known, the position set is
\* the reference position (above by the window height and the gap when the
\* click is below the middle of the monitor, else below the anchor by the
\* gap; max(0, x + w - window.width/2 - 10) when the click is right of the
\* middle, else the anchor's x), rounded to the nearest integer when the
\* anchor is in physical pixels; the three scenarios of the specification
\* give (100, -410), (0, 50) and (100, 50).
C11_PlacementIsReference ==
  /\ (Placed /\ BothKnown) =>
        /\ Result.space = Click.position
        /\ Result.x = (IF Result.space = "Physical" THEN Round(RefX) ELSE RefX)
        /\ Result.y = (IF Result.space = "Physical" THEN Round(RefY) ELSE RefY)
  /\ Scenario(500, 700) => (Result.x = 100 /\ Result.y = -410)
  /\ Scenario(900, 100) => (Result.x = 0 /\ Result.y = 50)
  /\ Scenario(500, 100) => (Result.x = 100 /\ Result.y = 50)

\* A click in the lower right quarter placed the window above the anchor
\* and right-aligned, off the left edge of the screen by more than zero.
C11_Witness ==
  /\ Placed /\ BothKnown
  /\ RefAbove /\ RefRight
  /\ Result.x > 0
  /\ Result.y < 0
  /\ window.shown /\ window.x = Result.x /\ window.y = Result.y

\* The gap in the space of the anchor: 20 when physical, 20 over the scale
\* factor of the monitor when logical, the scale factor being 1 when the
\* monitor is not known.
UnknownGap ==
  IF Click.position = "Physical" THEN AsF64(20)
  ELSE IF Click.monitor = Absent THEN AsF64(20)
  ELSE (AsF64(20) * Frac) \div Click.monitor[1].scale_factor

\* C12: when the window size or the monitor is not known, no flip is
\* applied whatever the click: the position set is x = anchor.x and
\* y = anchor.y + anchor.height + gap.
C12_NoFlipWhenUnknown ==
  (Placed /\ ~BothKnown) =>
     /\ AnchorF(Result.space, Result.x) = AnchorF(Click.position, Click.rect_x)
     /\ AnchorF(Result.space, Result.y) =
          AnchorF(Click.position, Click.rect_y) + AnchorF(Click.size, Click.rect_h) + UnknownGap

\* C13: a stop called when nothing is running is a no-op that returns
\* success: the step that takes the absent stream writes no line to any
\* pipe, and the step in which the call returns ends no process, leaves
\* both handles absent and returns Ok.
C13_StopWhenIdleIsNoOp ==
  [][\A t \in Threads :
       /\ (pc[t] = "stop_stdin" /\ pc'[t] = "stop_child" /\ stdin = None /\ child = None) =>
            /\ sent' = sent /\ inbox' = inbox /\ wstatus' = wstatus
            /\ stdin' = None /\ child' = None
       /\ (StopReturns(t) /\ stdin = None /\ child = None /\ sent[t] = <<>>) =>
            /\ sent' = sent /\ inbox' = inbox /\ wstatus' = wstatus
            /\ stdin' = None /\ child' = None
            /\ ret'[t] = "ok"]_vars

\* The characters a directory name may hold. "m", "o", "d", "e", "l" are
\* ASCII letters outside the slice Alnum of the letters an identifier is
\* drawn from.
Allowed == Alnum \cup {"-", "_", "."} \cup {"m", "o", "d", "e", "l"}

\* C14: the name made of an identifier has one character per character of
\* the identifier, each ASCII alphanumeric, '-', '_' and '.' unchanged
\* and every other character replaced by '_'; the empty identifier gives
\* "model"; the name holds allowed characters only and is never empty.
C14_SanitizedName ==
  component.done =>
    LET given == component.input
        name == component.out
    IN /\ given # <<>> =>
            /\ Len(name) = Len(given)
            /\ \A k \in 1..Len(given) :
                 name[k] = (IF given[k] \in Alnum \cup {"-", "_", "."} THEN given[k] ELSE "_")
       /\ given = <<>> => name = <<"m", "o", "d", "e", "l">>
       /\ name # <<>>
       /\ \A k \in 1..Len(name) : name[k] \in Allowed

\* An identifier with a kept and a replaced character has been sanitized.
C14_Witness ==
  /\ component.done
  /\ \E k \in 1..Len(component.input) : component.input[k] = "/" /\ component.out[k] = "_"
  /\ \E k \in 1..Len(component.input) : component.input[k] = "a" /\ component.out[k] = "a"

\* C15: under fair scheduling of the command threads, whatever the worker
\* does, every call of python_runtime_stop returns, with the process and
\* the stream absent.
C15_StopReturns ==
  \A t \in Threads :
    (op[t] = "stop" /\ pc[t] = "stop_lock")
      ~> (op[t] = "stop" /\ pc[t] = "done" /\ child = None /\ stdin = None)

\* Thread t writes a line in this step.
Writes(t) == Len(sent'[t]) = Len(sent[t]) + 1

\* A line written in this step is written under the guard to the stream
\* stored, which a sending command leaves stored.
WriteUnderGuard(t) ==
  Writes(t) =>
    /\ lock = t
    /\ stdin # None
    /\ sent'[t][Len(sent'[t])].to = stdin
    /\ inbox'[stdin] = Append(inbox[stdin], sent'[t][Len(sent'[t])].msg)
    /\ (op[t] # "stop" => stdin' = stdin)

\* A line enters the pipe of worker w in this step only by such a write.
PipeFedByWrite(w) ==
  Len(inbox'[w]) > Len(inbox[w]) => \E t \in Threads : Writes(t) /\ stdin = w

\* C16: every protocol line is written by a thread that holds the guard,
\* to the pipe of the stream stored in the state at that moment; a line
\* enters a pipe only by such a write, and a sending command leaves the
\* stream it wrote to stored. So no line goes to a stream a stop has
\* taken out of the state.
C16_WritesUnderGuard ==
  [][(\A t \in Threads : WriteUnderGuard(t)) /\ (\A w \in Workers : PipeFedByWrite(w))]_vars

\* A send has written its line to the second worker while a stop waits
\* for the guard, after an earlier stop took the stream of the first.
C16_Witness ==
  \E t, u \in Threads :
     /\ op[t] \in {"generate", "cancel", "download", "cancel_download"}
     /\ pc[t] = "done" /\ sent[t] # <<>> /\ sent[t][1].to = stdin
     /\ op[u] = "stop" /\ pc[u] = "stop_lock"
     /\ nSpawned > 1

\* The handles held are those of a worker process that has exited.
Stale == child # None /\ stdin # None /\ wstatus[child] = "exited"

\* C17: a send that returns WriteFailed leaves both handles in place; the
\* presence check of a later ensure finds them and returns without
\* spawning; and a handle that is present is removed or replaced by no
\* step but one of python_runtime_stop.
C17_WriteFailedKeepsHandles ==
  [][/\ \A t \in Threads :
          (pc[t] = "send" /\ pc'[t] = "done" /\ ret'[t] = "WriteFailed") =>
             (child # None /\ stdin # None /\ child' = child /\ stdin' = stdin)
     /\ \A t \in Threads :
          (pc[t] = "ens_body" /\ Stale) =>
             (child' = child /\ stdin' = stdin /\ nSpawned' = nSpawned /\ pc'[t] # "ens_store")
     /\ ((child # None /\ child' # child) \/ (stdin # None /\ stdin' # stdin)) =>
          (lock \in Threads /\ op[lock] = "stop")
    ]_vars

\* After a send returned WriteFailed, an ensure holds the guard and finds
\* the stale handles present.
C17_Witness ==
  \E t, u \in Threads :
     /\ pc[t] = "done" /\ ret[t] = "WriteFailed"
     /\ pc[u] = "ens_body" /\ lock = u
     /\ Stale

\* The anchor rectangle of the click is in logical units throughout.
LogicalAnchor == Click.position = "Logical" /\ Click.size = "Logical"

\* v logical units are the physical length p at the scale factor of the
\* monitor: v * scale_factor = p, with v and the scale factor in the units
\* of Frac.
IsLogicalOf(v, p) == v * Click.monitor[1].scale_factor = AsF64(p) * Frac

\* C18: for an anchor in logical units with window size and monitor
\* known, the position set is logical and every length combined with the
\* anchor is logical: the height subtracted from anchor.y for a window
\* shown above is the logical height of the window, the length subtracted
\* from the anchor's right edge less the 10-unit inset for a right-aligned
\* window is half its logical width (the result not below 0), and the gap
\* is 20 over the scale factor.
C18_SingleSpace ==
  (Placed /\ BothKnown /\ LogicalAnchor) =>
     /\ Result.space = "Logical"
     /\ RefAbove => IsLogicalOf(Click.rect_y - RefGap - Result.y, Click.window_size[1].height)
     /\ ~RefAbove => Result.y = Click.rect_y + Click.rect_h + RefGap
     /\ RefRight =>
          \/ IsLogicalOf(2 * (Click.rect_x + Click.rect_w - AsF64(10) - Result.x),
                         Click.window_size[1].width)
          \/ /\ Result.x = 0
             /\ 2 * (Click.rect_x + Click.rect_w - AsF64(10)) * Click.monitor[1].scale_factor
                  <= AsF64(Click.window_size[1].width) * Frac
     /\ ~RefRight => Result.x = Click.rect_x

\* Thread t is inside the hold of python_runtime_stop.
InStop(t) == pc[t] \in {"stop_stdin", "stop_child"}

\* C19: python_runtime_stop holds the guard from the shutdown line to the
\* kill: it writes the shutdown line to the stream it takes before
\* the process is killed, the kill is the last step of the same hold, and
\* no line but that shutdown line is written by any thread while the stop
\* is between the two.
C19_ShutdownThenKillInOneHold ==
  [][\A t \in Threads :
       InStop(t) =>
         /\ lock = t
         /\ \A u \in Threads :
              Writes(u) =>
                /\ u = t
                /\ pc[t] = "stop_stdin"
                /\ sent'[t] = <<[to |-> stdin, msg |-> Msg("shutdown", 0)]>>
         /\ (pc[t] = "stop_stdin" /\ pc'[t] # pc[t]) =>
              (pc'[t] = "stop_child" /\ lock' = t /\ stdin' = None /\ child' = child)
         /\ (pc[t] = "stop_child" /\ pc'[t] # pc[t]) =>
              (pc'[t] = "done" /\ lock' = None /\ stdin = None /\ child' = None
                 /\ \A w \in Workers : wstatus'[w] # wstatus[w] => w = child)]_vars

\* A stop has written the shutdown line to a running worker and then
\* killed it, while a send of the other thread waited for the guard.
C19_Witness ==
  \E t, u \in Threads :
     /\ op[t] = "stop" /\ pc[t] = "done"
     /\ sent[t] # <<>> /\ sent[t][1].msg.type = "shutdown"
     /\ wstatus[sent[t][1].to] = "exited"
     /\ pc[u] = "send_lock"

\* Thread t runs chat_generate or model_download_start.
TwoHolds(t) == op[t] \in {"generate", "download"}

\* C20: chat_generate and model_download_start drop the guard between
\* ensure_python_runtime and the send; the send returns NotRunning only
\* when a stop took the handles between the two, and with no stop in
\* between a call whose ensure succeeded sends or fails on the write.
C20_NotRunningOnlyAfterStop ==
  [][\A t \in Threads :
       TwoHolds(t) =>
         /\ pc[t] \in {"after_ensure", "send_lock"} => lock # t
         /\ (pc[t] = "send" /\ pc'[t] = "done" /\ ret'[t] = "NotRunning") => t \in raced
         /\ (pc[t] = "send" /\ pc'[t] = "done" /\ t \notin raced) =>
              ret'[t] \in {"ok", "WriteFailed"}
         /\ (t \in raced' /\ t \notin raced) =>
              (lock \in Threads /\ lock # t /\ op[lock] = "stop" /\ pc[lock] = "stop_stdin")]_vars

\* A chat_generate or model_download_start whose ensure succeeded has
\* returned NotRunning.
C20_Witness ==
  \E t \in Threads : TwoHolds(t) /\ pc[t] = "done" /\ ret[t] = "NotRunning"

\* The step in which chat_generate returns ModelNotLocal on thread t.
ReturnsModelNotLocal(t) ==
  op[t] = "generate" /\ pc[t] = "after_ensure" /\ pc'[t] = "done" /\ ret'[t] = "ModelNotLocal"

\* C21 as stated: whenever chat_generate returns ModelNotLocal, both
\* handles are present and the reader of the process held has been started.
C21_Original ==
  [][\A t \in Threads :
       ReturnsModelNotLocal(t) =>
         (child' # None /\ stdin' # None /\ reader'[child'] # "none")]_vars

\* C21: chat_generate runs ensure_python_runtime before it checks the
\* model directory and undoes nothing when the check fails: the step that
\* returns ModelNotLocal leaves the handles, the processes and the readers
\* as they are, and, unless a stop took the handles since the ensure of
\* this call returned, both handles are present and the reader of the
\* process held has been started.
C21_ModelNotLocalLeavesRunning ==
  [][\A t \in Threads :
       ReturnsModelNotLocal(t) =>
         /\ child' = child /\ stdin' = stdin
         /\ wstatus' = wstatus /\ reader' = reader /\ nSpawned' = nSpawned
         /\ t \notin raced =>
              (child # None /\ stdin # None /\ reader[child] # "none")]_vars

\* The only call made so far, a chat_generate on the idle supervisor, has
\* spawned the first worker and returned ModelNotLocal: the worker runs,
\* both handles are held and its reader runs.
C21_Witness ==
  \E t \in Threads :
     /\ op[t] = "generate" /\ pc[t] = "done" /\ ret[t] = "ModelNotLocal"
     /\ \A u \in Threads \ {t} : op[u] = "none"
     /\ nSpawned = 1 /\ child = 1 /\ stdin = 1
     /\ wstatus[1] = "running" /\ reader[1] = "running"

====
